---- MODULE Spec2Model ----
(***************************************************************************)
(* Model of the educa course backend: the relational tables of Course,    *)
(* Module and Content (courses/models.py), the OrderField.pre_save hook    *)
(* (courses/fields.py) as executed by Model.save, and the owner-scoped     *)
(* course views (courses/views.py).                                        *)
(*                                                                         *)
(* A save is two steps, as in the ORM: pre_save computes the column value  *)
(* on the in-memory instance (one scan of the scope when the order is      *)
(* None), then the INSERT/UPDATE statement writes it.  Requests are served *)
(* by the workers of Workers; nothing in the code orders the two steps of  *)
(* one worker against those of another.                                    *)
(***************************************************************************)
EXTENDS Integers, FiniteSets, Sequences, TLC

\* ---- bounds of the model
MaxCourses == 2
MaxRecords == 2
MaxAuto == 3
MaxOrder == 2

Users == {"u1", "u2"}
Workers == {1, 2}

\* Python's None as the value of the order attribute (fields.py:25).
None == -1

VARIABLES
    course_tbl,   \* rows of Course: [id, owner]
    module_tbl,   \* rows of Module: [id, course, order]
    content_tbl,  \* rows of Content: [id, module, order]
    next_id,      \* the auto-increment primary key of each table
    inst,         \* per worker: the model instance whose save is in progress
    response      \* the last HTTP response of a course view

vars == <<course_tbl, module_tbl, content_tbl, next_id, inst, response>>

\* ---- the schema (models.py)

\* order = OrderField(blank=True, for_fields=[...]) of Module and of Content.
ForFields(model) == IF model = "Module" THEN <<"course">> ELSE <<"module">>

Objects(model) == IF model = "Module" THEN module_tbl ELSE content_tbl

Ids(tbl) == {r.id : r \in tbl}

Idle == [model |-> "none", obj |-> [pk |-> 0, order |-> None], given |-> None, scanned |-> FALSE]

NoResponse == [view |-> "none", user |-> "", pk |-> 0, status |-> 0, object_list |-> {}]

\* ---- OrderField.pre_save (fields.py)

\* Mutant: the for_fields filter is skipped.
Filter_none(qs, for_fields, model_instance) == qs

\* qs.filter(**query): equality on every field named in for_fields.
Filter(qs, for_fields, model_instance) ==
    {r \in qs : \A i \in 1..Len(for_fields) :
        r[for_fields[i]] = model_instance[for_fields[i]]}

\* Mutant: qs.earliest('order').
Latest_earliest(qs) == CHOOSE r \in qs : \A s \in qs : r.order <= s.order

\* Mutant: qs.latest('id'), the row inserted last.
Latest_by_id(qs) == CHOOSE r \in qs : \A s \in qs : s.id <= r.id

\* qs.latest('order'): the row that comes first by descending order.
Latest(qs) == CHOOSE r \in qs : \A s \in qs : s.order <= r.order

\* Mutant: the + 1 is dropped.
pre_save_no_increment(model, model_instance) ==
    IF model_instance.order = None
    THEN LET qs == Filter(Objects(model), ForFields(model), model_instance)
         IN  IF qs = {} THEN 0 ELSE Latest(qs).order
    ELSE model_instance.order

\* Mutant: the value is computed whether or not the attribute is set.
pre_save_always(model, model_instance) ==
    LET qs == Filter(Objects(model), ForFields(model), model_instance)
    IN  IF qs = {} THEN 0 ELSE Latest(qs).order + 1

\* The value pre_save returns and leaves in the instance's order attribute.
pre_save(model, model_instance) ==
    IF model_instance.order = None
    THEN LET qs == Filter(Objects(model), ForFields(model), model_instance)
         IN  IF qs = {} THEN 0 ELSE Latest(qs).order + 1
    ELSE model_instance.order

\* Mutant: the queryset is evaluated before the test of the attribute.
pre_save_scans_always(model_instance) == TRUE

\* Whether pre_save evaluated the queryset (the try block of the None branch).
pre_save_scans(model_instance) == model_instance.order = None

\* ---- Model.save, first step: pre_save runs on the instance

\* The instance after pre_save: setattr(model_instance, self.attname, value).
Saved(model, obj) == [obj EXCEPT !.order = pre_save(model, obj)]

\* given keeps the order attribute the caller passed in, scanned whether
\* pre_save read the table.
BeginSave(w, model, obj) ==
    /\ inst[w].model = "none"
    /\ pre_save(model, obj) <= MaxOrder
    /\ inst' = [inst EXCEPT ![w] =
                  [model   |-> model,
                   obj     |-> Saved(model, obj),
                   given   |-> obj.order,
                   scanned |-> pre_save_scans(obj)]]
    /\ UNCHANGED <<course_tbl, module_tbl, content_tbl, next_id, response>>

\* Module and Content rows stored so far plus those being inserted.
Records ==
    (next_id.Module - 1) + (next_id.Content - 1)
        + Cardinality({w \in Workers : inst[w].model # "none" /\ inst[w].obj.pk = 0})

\* Module(course=c, order=o).save() of a new instance (pk unset).
CreateModule(w, c, o) ==
    /\ c \in Ids(course_tbl)
    /\ BeginSave(w, "Module", [pk |-> 0, course |-> c, order |-> o])

CreateContent(w, m, o) ==
    /\ m \in Ids(module_tbl)
    /\ BeginSave(w, "Content", [pk |-> 0, module |-> m, order |-> o])

\* A stored row is loaded, its order attribute is left alone (o = r.order),
\* cleared (o = None) or assigned (any other o), and the instance is saved.
UpdateModule(w, r, o) ==
    /\ r \in module_tbl
    /\ BeginSave(w, "Module", [pk |-> r.id, course |-> r.course, order |-> o])

UpdateContent(w, r, o) ==
    /\ r \in content_tbl
    /\ BeginSave(w, "Content", [pk |-> r.id, module |-> r.module, order |-> o])

\* ---- Model.save, second step: the INSERT or UPDATE statement

ParentExists(model, obj) ==
    IF model = "Module" THEN obj.course \in Ids(course_tbl)
                        ELSE obj.module \in Ids(module_tbl)

\* The row stored for the instance of worker w: its fields, under its own
\* primary key or, for a new instance, the next one of the table.
Stored(w) ==
    LET i  == inst[w]
        id == IF i.obj.pk = 0 THEN next_id[i.model] ELSE i.obj.pk
    IN  IF i.model = "Module"
        THEN [id |-> id, course |-> i.obj.course, order |-> i.obj.order]
        ELSE [id |-> id, module |-> i.obj.module, order |-> i.obj.order]

\* Mutant: order is unique within the scope and the statement is refused.
Written_unique(w, tbl) ==
    IF \E r \in tbl : /\ r.id # inst[w].obj.pk
                       /\ r.order = inst[w].obj.order
                       /\ r[ForFields(inst[w].model)[1]] = inst[w].obj[ForFields(inst[w].model)[1]]
    THEN tbl
    ELSE {r \in tbl : r.id # inst[w].obj.pk} \cup {Stored(w)}

\* The table after the statement.  Neither table declares order unique
\* within its scope, so no stored row stands in the way of the write.
Written(w, tbl) == {r \in tbl : r.id # inst[w].obj.pk} \cup {Stored(w)}

Write(w) ==
    /\ inst[w].model # "none"
    /\ inst' = [inst EXCEPT ![w] = Idle]
    /\ IF ~ParentExists(inst[w].model, inst[w].obj)
       THEN \* the foreign key does not resolve: IntegrityError, nothing stored
            UNCHANGED <<module_tbl, content_tbl, next_id>>
       ELSE /\ module_tbl' = IF inst[w].model = "Module"
                             THEN Written(w, module_tbl) ELSE module_tbl
            /\ content_tbl' = IF inst[w].model = "Content"
                              THEN Written(w, content_tbl) ELSE content_tbl
            /\ next_id' = IF inst[w].obj.pk = 0
                          THEN [next_id EXCEPT ![inst[w].model] = @ + 1]
                          ELSE next_id
    /\ UNCHANGED <<course_tbl, response>>

\* ---- deletion, with the cascades the foreign keys declare (models.py)

CascadeModules(courses) == {r \in module_tbl : r.course \in courses}
CascadeContents(modules) == {r \in content_tbl : r.module \in Ids(modules)}

DeleteModule(r) ==
    /\ r \in module_tbl
    /\ module_tbl' = module_tbl \ {r}
    /\ content_tbl' = content_tbl \ CascadeContents({r})
    /\ UNCHANGED <<course_tbl, next_id, inst, response>>

DeleteContent(r) ==
    /\ r \in content_tbl
    /\ content_tbl' = content_tbl \ {r}
    /\ UNCHANGED <<course_tbl, module_tbl, next_id, inst, response>>

\* Course.delete() through the ORM, with its cascades.
DeleteCourse(c) ==
    /\ c \in course_tbl
    /\ course_tbl' = course_tbl \ {c}
    /\ module_tbl' = module_tbl \ CascadeModules({c.id})
    /\ content_tbl' = content_tbl \ CascadeContents(CascadeModules({c.id}))
    /\ UNCHANGED <<next_id, inst, response>>

\* ---- the course views (views.py)

\* Mutant: the owner filter is missing.
get_queryset_all(user) == course_tbl

\* OwnerMixin.get_queryset: qs.filter(owner=self.request.user)
get_queryset(user) == {c \in course_tbl : c.owner = user}

\* SingleObjectMixin.get_object over get_queryset(): the rows with this pk.
get_object(user, pk) == {c \in get_queryset(user) : c.id = pk}

ManageCourseListView(u) ==
    /\ response' = [view |-> "list", user |-> u, pk |-> 0, status |-> 200,
                    object_list |-> Ids(get_queryset(u))]
    /\ UNCHANGED <<course_tbl, module_tbl, content_tbl, next_id, inst>>

\* OwnerEditMixin.form_valid: form.instance.owner = self.request.user, then save.
form_valid(u, id) == [id |-> id, owner |-> u]

CourseCreateView(u) ==
    /\ next_id.Course <= MaxCourses
    /\ course_tbl' = course_tbl \cup {form_valid(u, next_id.Course)}
    /\ next_id' = [next_id EXCEPT !.Course = @ + 1]
    /\ response' = [view |-> "create", user |-> u, pk |-> next_id.Course,
                    status |-> 302, object_list |-> {}]
    /\ UNCHANGED <<module_tbl, content_tbl, inst>>

CourseUpdateView(u, pk) ==
    /\ IF get_object(u, pk) = {}
       THEN /\ response' = [view |-> "update", user |-> u, pk |-> pk,
                            status |-> 404, object_list |-> {}]
            /\ UNCHANGED course_tbl
       ELSE /\ course_tbl' = {c \in course_tbl : c.id # pk} \cup {form_valid(u, pk)}
            /\ response' = [view |-> "update", user |-> u, pk |-> pk,
                            status |-> 302, object_list |-> {}]
    /\ UNCHANGED <<module_tbl, content_tbl, next_id, inst>>

CourseDeleteView(u, pk) ==
    /\ IF get_object(u, pk) = {}
       THEN /\ response' = [view |-> "delete", user |-> u, pk |-> pk,
                            status |-> 404, object_list |-> {}]
            /\ UNCHANGED <<course_tbl, module_tbl, content_tbl>>
       ELSE /\ course_tbl' = course_tbl \ get_object(u, pk)
            /\ module_tbl' = module_tbl \ CascadeModules({pk})
            /\ content_tbl' = content_tbl \ CascadeContents(CascadeModules({pk}))
            /\ response' = [view |-> "delete", user |-> u, pk |-> pk,
                            status |-> 302, object_list |-> {}]
    /\ UNCHANGED <<next_id, inst>>

\* CourseModuleUpdateView.dispatch: get_object_or_404(Course, id=pk, owner=request.user)
dispatch(u, pk) == {c \in course_tbl : c.id = pk /\ c.owner = u}

\* GET of the module formset of a course.
CourseModuleUpdateView(u, pk) ==
    /\ response' = [view |-> "module", user |-> u, pk |-> pk,
                    status |-> IF dispatch(u, pk) = {} THEN 404 ELSE 200,
                    object_list |-> Ids(dispatch(u, pk))]
    /\ UNCHANGED <<course_tbl, module_tbl, content_tbl, next_id, inst>>

\* ---- the specifications

Orders == {None} \cup 0..MaxOrder

\* The empty database.
InitViews ==
    /\ course_tbl = {}
    /\ module_tbl = {}
    /\ content_tbl = {}
    /\ next_id = [Course |-> 1, Module |-> 1, Content |-> 1]
    /\ inst = [w \in Workers |-> Idle]
    /\ response = NoResponse

\* A catalogue of courses, as CourseCreateView leaves it, with no module yet.
Init ==
    /\ course_tbl = {[id |-> c, owner |-> "u1"] : c \in 1..MaxCourses}
    /\ module_tbl = {}
    /\ content_tbl = {}
    /\ next_id = [Course |-> MaxCourses + 1, Module |-> 1, Content |-> 1]
    /\ inst = [w \in Workers |-> Idle]
    /\ response = NoResponse

\* No save is between its two steps.
Quiet == \A w \in Workers : inst[w].model = "none"

\* A save of the same model into the same scope is between its two steps.
Busy(model, scope) ==
    \E w \in Workers : /\ inst[w].model = model
                        /\ inst[w].obj[ForFields(model)[1]] = scope

\* Inserts and deletes under concurrent workers: the two steps of a save
\* interleave freely with the steps of the other worker.
Next ==
    \/ \E c \in course_tbl : DeleteCourse(c)
    \/ \E w \in Workers, c \in 1..MaxCourses, o \in Orders :
          Records < MaxRecords /\ CreateModule(w, c, o)
    \/ \E w \in Workers, m \in 1..MaxRecords, o \in Orders :
          Records < MaxRecords /\ CreateContent(w, m, o)
    \/ \E w \in Workers : Write(w)
    \/ \E r \in module_tbl : DeleteModule(r)
    \/ \E r \in content_tbl : DeleteContent(r)

Spec == Init /\ [][Next]_vars

\* The same operations when the persistence layer serializes the saves into
\* one scope: a save starts only when no other save into its scope is under way.
NextSerialized ==
    \/ \E c \in course_tbl : DeleteCourse(c)
    \/ \E w \in Workers, c \in 1..MaxCourses, o \in Orders :
          Records < MaxRecords /\ ~Busy("Module", c) /\ CreateModule(w, c, o)
    \/ \E w \in Workers, m \in 1..MaxRecords, o \in Orders :
          Records < MaxRecords /\ ~Busy("Content", m) /\ CreateContent(w, m, o)
    \/ \E w \in Workers : Write(w)
    \/ \E r \in module_tbl : DeleteModule(r)
    \/ \E r \in content_tbl : DeleteContent(r)

SpecSerialized == Init /\ [][NextSerialized]_vars

\* The worker that makes the calls when they are made one at a time.
Callers == {CHOOSE w \in Workers : TRUE}

\* Every ORM call, one at a time: inserts and updates with the order unset,
\* untouched or assigned, and deletes.
NextSaves ==
    \/ \E c \in course_tbl : Quiet /\ DeleteCourse(c)
    \/ \E w \in Callers, c \in 1..MaxCourses, o \in Orders :
          Quiet /\ Records < MaxRecords /\ CreateModule(w, c, o)
    \/ \E w \in Callers, m \in 1..MaxRecords, o \in Orders :
          Quiet /\ Records < MaxRecords /\ CreateContent(w, m, o)
    \/ \E w \in Callers, r \in module_tbl, o \in Orders :
          Quiet /\ UpdateModule(w, r, o)
    \/ \E w \in Callers, r \in content_tbl, o \in Orders :
          Quiet /\ UpdateContent(w, r, o)
    \/ \E w \in Callers : Write(w)
    \/ \E r \in module_tbl : Quiet /\ DeleteModule(r)
    \/ \E r \in content_tbl : Quiet /\ DeleteContent(r)

SpecSaves == Init /\ [][NextSaves]_vars

\* Inserts, with the order unset or assigned, and deletes, one call at a time.
NextInserts ==
    \/ \E c \in course_tbl : Quiet /\ DeleteCourse(c)
    \/ \E w \in Callers, c \in 1..MaxCourses, o \in Orders :
          Quiet /\ Records < MaxAuto /\ CreateModule(w, c, o)
    \/ \E w \in Callers, m \in 1..MaxAuto, o \in Orders :
          Quiet /\ Records < MaxAuto /\ CreateContent(w, m, o)
    \/ \E w \in Callers : Write(w)
    \/ \E r \in module_tbl : Quiet /\ DeleteModule(r)
    \/ \E r \in content_tbl : Quiet /\ DeleteContent(r)

SpecInserts == Init /\ [][NextInserts]_vars

\* One call at a time, every record created with its order unset.
NextAuto ==
    \/ \E c \in course_tbl : Quiet /\ DeleteCourse(c)
    \/ \E w \in Callers, c \in 1..MaxCourses :
          Quiet /\ Records < MaxAuto /\ CreateModule(w, c, None)
    \/ \E w \in Callers, m \in 1..MaxAuto :
          Quiet /\ Records < MaxAuto /\ CreateContent(w, m, None)
    \/ \E w \in Callers : Write(w)
    \/ \E r \in module_tbl : Quiet /\ DeleteModule(r)
    \/ \E r \in content_tbl : Quiet /\ DeleteContent(r)

SpecAuto == Init /\ [][NextAuto]_vars

\* The course views, one request at a time.
NextViews ==
    \/ \E u \in Users : ManageCourseListView(u)
    \/ \E u \in Users : CourseCreateView(u)
    \/ \E u \in Users, pk \in 1..MaxCourses : CourseUpdateView(u, pk)
    \/ \E u \in Users, pk \in 1..MaxCourses : CourseDeleteView(u, pk)
    \/ \E u \in Users, pk \in 1..MaxCourses : CourseModuleUpdateView(u, pk)

SpecViews == InitViews /\ [][NextViews]_vars

\* ---- vocabulary of the properties

Models == {"Module", "Content"}

ScopeOf(model, obj) == obj[ForFields(model)[1]]

\* The stored rows of the scope of obj, and their order values.
Siblings(model, obj) == {r \in Objects(model) : ScopeOf(model, r) = ScopeOf(model, obj)}
SiblingOrders(model, obj) == {r.order : r \in Siblings(model, obj)}

ObjectsNext(model) == IF model = "Module" THEN module_tbl' ELSE content_tbl'

\* Worker w runs pre_save in this step; worker w runs its statement in this step.
ScanStep(w) == inst[w].model = "none" /\ inst'[w].model # "none"
WriteStep(w) == inst[w].model # "none" /\ inst'[w].model = "none"

\* No two rows of one scope hold the same order.
Unique(tbl, model) ==
    \A r1, r2 \in tbl :
        (r1.id # r2.id /\ ScopeOf(model, r1) = ScopeOf(model, r2)) => r1.order # r2.order

\* ---- the properties

\* C1: a save with the order unset assigns one plus the maximum order stored in
\* the scope at the moment of the scan, explicit siblings counted, and 0 when
\* the scope holds no row.
C1_AutoOrderIsMaxPlusOne ==
    [][\A w \in Workers :
        (ScanStep(w) /\ inst'[w].given = None) =>
            LET i   == inst'[w]
                sib == SiblingOrders(i.model, i.obj)
            IN  IF sib = {} THEN i.obj.order = 0
                ELSE /\ (i.obj.order - 1) \in sib
                     /\ \A o \in sib : o < i.obj.order]_vars

\* C1: after a sibling stored with an explicit order of 1 and a later sibling
\* stored with 0, the next unset save holds 2.
C1_Witness ==
    \E w \in Workers :
        /\ inst[w].model # "none"
        /\ inst[w].given = None
        /\ inst[w].obj.order = 2
        /\ \E r1, r2 \in Siblings(inst[w].model, inst[w].obj) :
              r1.id < r2.id /\ r1.order = 1 /\ r2.order = 0

ExplicitWrite(w) ==
    /\ WriteStep(w)
    /\ inst[w].given # None
    /\ \A r \in Objects(inst[w].model) : r.id = inst[w].obj.pk => r.order # inst[w].given

NthInScope(tbl, model, r) ==
    Cardinality({q \in tbl : ScopeOf(model, q) = ScopeOf(model, r) /\ q.id < r.id})

C3_InsertionOrder ==
    /\ Cardinality(module_tbl) = next_id.Module - 1 =>
          \A r \in module_tbl : r.order = NthInScope(module_tbl, "Module", r)
    /\ Cardinality(content_tbl) = next_id.Content - 1 =>
          \A r \in content_tbl : r.order = NthInScope(content_tbl, "Content", r)

\* C3: three modules inserted into one course hold 0, 1 and 2 in insertion order.
C3_Witness ==
    \E c \in 1..MaxCourses :
        {<<r.id, r.order>> : r \in {q \in module_tbl : q.course = c}}
            = {<<1, 0>>, <<2, 1>>, <<3, 2>>}

\* C4: a save with the order set leaves the attribute as given, reads no row,
\* and its statement stores that value.
C4_ExplicitOrderPassesThrough ==
    [][\A w \in Workers :
        /\ (ScanStep(w) /\ inst'[w].given # None) =>
              /\ inst'[w].obj.order = inst'[w].given
              /\ ~inst'[w].scanned
        /\ (/\ WriteStep(w) /\ inst[w].given # None
            /\ ParentExists(inst[w].model, inst[w].obj)) =>
              \E r \in ObjectsNext(inst[w].model) :
                  /\ r.order = inst[w].given
                  /\ ScopeOf(inst[w].model, r) = ScopeOf(inst[w].model, inst[w].obj)
                  /\ (inst[w].obj.pk # 0 => r.id = inst[w].obj.pk)]_vars

\* C4: an explicit order is in hand while a sibling holds a larger one, so a
\* computed value would differ.
C4_Witness ==
    \E w \in Workers :
        /\ inst[w].model # "none"
        /\ inst[w].given # None
        /\ inst[w].obj.order = inst[w].given
        /\ ~inst[w].scanned
        /\ \E o \in SiblingOrders(inst[w].model, inst[w].obj) : o >= inst[w].given

\* The value the next unset insert into scope s would be assigned.
NextOrder(model, s) ==
    IF model = "Module" THEN pre_save(model, [pk |-> 0, course |-> s, order |-> None])
                        ELSE pre_save(model, [pk |-> 0, module |-> s, order |-> None])

RowsOf(model, s) ==
    IF model = "Module" THEN {r \in module_tbl : r.course = s}
                        ELSE {r \in content_tbl : r.module = s}

\* The scopes of a model: the stored rows its for_fields key can refer to.
ScopesOf(model) == IF model = "Module" THEN Ids(course_tbl) ELSE Ids(module_tbl)

\* C5: a step that changes a table and leaves the rows of a scope alone leaves
\* the value assigned next in that scope alone, whatever it inserts, deletes or
\* reorders in other scopes, and an empty scope assigns 0 whatever the other
\* scopes hold, before the step and after it.
C5_ScopesIndependent ==
    [][(module_tbl' # module_tbl \/ content_tbl' # content_tbl) =>
          \A model \in Models : \A s \in ScopesOf(model) :
              /\ RowsOf(model, s) = {} => NextOrder(model, s) = 0
              /\ RowsOf(model, s)' = {} => NextOrder(model, s)' = 0
              /\ RowsOf(model, s)' = RowsOf(model, s) =>
                    NextOrder(model, s)' = NextOrder(model, s)]_vars

\* C5: an unset insert holds 0 for its empty course while another course holds
\* two modules, of orders 0 and 1.
C5_Witness ==
    \E w \in Workers :
        /\ inst[w].model = "Module"
        /\ inst[w].given = None
        /\ inst[w].obj.order = 0
        /\ \E r1, r2 \in module_tbl :
              /\ r1.course = r2.course /\ r1.course # inst[w].obj.course
              /\ r1.order = 0 /\ r2.order = 1

\* C6: when the saves into a scope are serialized, the order an unset insert
\* writes exceeds every order stored in its scope at the write, so no two such
\* inserts store the same value.
C6_SerializedInsertsDistinct ==
    [][\A w \in Workers :
        (WriteStep(w) /\ inst[w].given = None) =>
            \A o \in SiblingOrders(inst[w].model, inst[w].obj) : o < inst[w].obj.order]_vars

\* C6: an unset insert that had to wait for the insert of a sibling is between
\* its scan and its write, holding one more than that sibling's order.
C6_Witness ==
    \E w \in Workers :
        /\ inst[w].model # "none"
        /\ inst[w].given = None
        /\ inst[w].obj.order >= 1
        /\ (inst[w].obj.order - 1) \in SiblingOrders(inst[w].model, inst[w].obj)

\* C7: nothing refuses or recomputes at the write: an insert whose order a
\* sibling already holds is stored all the same, leaving two rows of the scope
\* with that order, and a scan made while another unset insert into the scope is
\* pending over the same rows computes the same value as that insert.
C7_RaceStoresDuplicates ==
    [][\A w \in Workers :
        /\ (/\ WriteStep(w)
            /\ ParentExists(inst[w].model, inst[w].obj)
            /\ inst[w].obj.order \in SiblingOrders(inst[w].model, inst[w].obj)) =>
              \E r1, r2 \in ObjectsNext(inst[w].model) :
                  /\ r1.id # r2.id
                  /\ r1.order = inst[w].obj.order /\ r2.order = inst[w].obj.order
                  /\ ScopeOf(inst[w].model, r1) = ScopeOf(inst[w].model, inst[w].obj)
                  /\ ScopeOf(inst[w].model, r2) = ScopeOf(inst[w].model, inst[w].obj)
        /\ \A v \in Workers :
              (/\ ScanStep(w) /\ inst'[w].given = None
               /\ v # w /\ inst[v].model = inst'[w].model /\ inst[v].given = None
               /\ ScopeOf(inst[v].model, inst[v].obj) = ScopeOf(inst[v].model, inst'[w].obj)
               /\ \A o \in SiblingOrders(inst[v].model, inst[v].obj) : o < inst[v].obj.order
               /\ (inst[v].obj.order = 0
                     \/ (inst[v].obj.order - 1) \in SiblingOrders(inst[v].model, inst[v].obj))) =>
                  inst'[w].obj.order = inst[v].obj.order]_vars

\* C7: both scans have happened before either write: two unset inserts into one
\* scope are pending with the same order.
C7_Witness ==
    \E w, v \in Workers :
        /\ w # v
        /\ inst[w].model # "none" /\ inst[v].model = inst[w].model
        /\ inst[w].given = None /\ inst[v].given = None
        /\ ScopeOf(inst[w].model, inst[w].obj) = ScopeOf(inst[w].model, inst[v].obj)
        /\ inst[w].obj.order = inst[v].obj.order

\* The save of worker w is of a stored row whose order attribute is as stored.
Resave(w, r) ==
    /\ r \in Objects(inst[w].model)
    /\ r.id = inst[w].obj.pk
    /\ inst[w].given = r.order

\* C8: saving a stored row again with its order attribute set and untouched
\* leaves the stored order as it was.
C8_ResaveKeepsOrder ==
    [][\A w \in Workers : \A r \in module_tbl \cup content_tbl :
        (WriteStep(w) /\ Resave(w, r)) =>
            \E q \in ObjectsNext(inst[w].model) : q.id = r.id /\ q.order = r.order]_vars

\* C8: a row is being saved again untouched while a sibling holds a larger
\* order.
C8_Witness ==
    \E w \in Workers : \E r \in module_tbl \cup content_tbl :
        /\ inst[w].model # "none"
        /\ Resave(w, r)
        /\ \E o \in SiblingOrders(inst[w].model, inst[w].obj) : o > r.order

\* C9: with calls made one at a time and every order unset, the value in hand
\* exceeds every order stored in its scope, and the stored orders of a scope
\* are pairwise distinct.
C9_AutoOrdersAboveSiblings ==
    /\ \A w \in Workers :
          inst[w].model # "none" =>
              \A o \in SiblingOrders(inst[w].model, inst[w].obj) : o < inst[w].obj.order
    /\ Unique(module_tbl, "Module")
    /\ Unique(content_tbl, "Content")

\* C9: the only content ever stored, of order 0 in module 1, was deleted, and
\* the next content of module 1 is assigned 0 again.
C9_Witness ==
    \E w \in Workers :
        /\ inst[w].model = "Content"
        /\ inst[w].obj.module = 1
        /\ inst[w].obj.order = 0
        /\ next_id.Module = 2
        /\ next_id.Content = 2
        /\ content_tbl = {}

\* What the response of a step says, against the courses before the step.
ResponseOk ==
    LET q    == response'
        mine == {c \in course_tbl : c.owner = q.user}
    IN  /\ q.view = "list" => q.object_list = Ids(mine)
        /\ q.view \in {"update", "delete", "module"} =>
              (q.status = 404 <=> q.pk \notin Ids(mine))
        /\ q.view = "module" => q.object_list \subseteq Ids(mine)
        /\ q.view \in {"create", "update"} /\ q.status = 302 =>
              \E c \in course_tbl' : c.id = q.pk /\ c.owner = q.user
        /\ q.status = 404 => course_tbl' = course_tbl

\* C10: every view answers from the requesting user's own courses, answers
\* not-found for another user's course, stores the requesting user as owner,
\* and no request changes the owner of a stored course or removes or adds a
\* course of another user.
C10_OwnerScoped ==
    [][/\ ResponseOk
       /\ \A c \in course_tbl, d \in course_tbl' : c.id = d.id => c.owner = d.owner
       /\ \A c \in (course_tbl \ course_tbl') \cup (course_tbl' \ course_tbl) :
              c.owner = response'.user]_vars

\* C10: the module formset view has answered not-found to a user for a course
\* another user owns.
C10_Witness ==
    /\ response.view = "module"
    /\ response.status = 404
    /\ \E c \in course_tbl : c.id = response.pk /\ c.owner # response.user

====
